---- MODULE Spec2Model ----
(***************************************************************************)
(* Model of mmworkbench/components/dialogue.py: DialogueStateRule,         *)
(* DialogueManager, DialogueResponder and Conversation.                    *)
(***************************************************************************)
EXTENDS Integers, Sequences, FiniteSets, TLC

VARIABLES
    rules,        \* DialogueManager.rules: list of DialogueStateRule
    handler_map,  \* DialogueManager.handler_map: dialogue state -> handler (None = no key)
    last,         \* the add_dialogue_rule call that just ended: its arguments and outcome
    calls,        \* apply_handler invocations: caller -> frame of the call
    responders,   \* the DialogueResponder objects: identity -> object
    session,      \* Conversation.session
    history,      \* Conversation.history
    frame,        \* Conversation.frame
    allowed_intents,      \* Conversation.allowed_intents
    target_dialog_state,  \* Conversation.target_dialog_state
    turn,         \* the last Conversation call: its arguments, pipeline response and result
    probe         \* a rule and a context, and <<rule.apply(context)>> once evaluated

vars == <<rules, handler_map, last, calls, responders, session, history, frame,
          allowed_intents, target_dialog_state, turn, probe>>

managerVars == <<rules, handler_map, last, calls, responders>>
convVars == <<session, history, frame, allowed_intents, target_dialog_state, turn>>

-----------------------------------------------------------------------------
(* Bounds of the model *)

MaxRules == 2
MaxActions == 2
MaxTurns == 2

-----------------------------------------------------------------------------
(* Python values *)

\* None, where the other values are strings (a state name, a domain, a handler).
None == "None"

\* An optional set: <<>> is None, <<S>> is the frozenset S.
NoSet == <<>>
SomeSet(S) == <<S>>

\* A keyword argument that was not passed.
Absent == [t |-> "absent", v |-> <<>>]
PyStr(s) == [t |-> "str", v |-> <<s>>]
PyList(q) == [t |-> "list", v |-> q]
PyInt(n) == [t |-> "int", v |-> <<n>>]
PyNone == [t |-> "NoneType", v |-> <<>>]
PySet(S) == [t |-> "set", v |-> S]

Range(q) == {q[i] : i \in 1..Len(q)}

\* The characters of a string, for the strings the model uses.
Chars(s) == IF s = "AB" THEN {"A", "B"} ELSE {s}

SHOW_REPLY == "show-reply"
SHOW_PROMPT == "show-prompt"
SHOW_SUGGESTIONS == "show-suggestions"
SHOW_COLLECTION == "show-collection"

-----------------------------------------------------------------------------
(* DialogueStateRule *)

\* {kwargs[single]}: a set display hashes its element; a list, a set and a
\* dict are unhashable. The element None is the string None, a number its digits.
SetDisplay(x) ==
    CASE x.t \in {"str", "int"} -> [err |-> None, val |-> {x.v[1]}]
      [] x.t = "NoneType" -> [err |-> None, val |-> {None}]
      [] OTHER -> [err |-> "TypeError", val |-> {}]

\* set(kwargs[plural]): iterates its argument; a string yields its characters,
\* a dict its keys, a number and None are not iterable.
SetOf(x) ==
    CASE x.t = "str" -> [err |-> None, val |-> Chars(x.v[1])]
      [] x.t = "list" -> [err |-> None, val |-> Range(x.v)]
      [] x.t = "set" -> [err |-> None, val |-> x.v]
      [] x.t = "dict" -> [err |-> None, val |-> DOMAIN x.v]
      [] OTHER -> [err |-> "TypeError", val |-> {}]

\* resolved['has_entities'] after the loop over key_kwargs.
ResolveEntities(kw) ==
    IF kw.has_entity.t # "absent" /\ kw.has_entities.t # "absent"
    THEN [err |-> "ValueError", val |-> NoSet]
    ELSE IF kw.has_entity.t # "absent"
    THEN LET r == SetDisplay(kw.has_entity)
         IN  [err |-> r.err, val |-> IF r.err = None THEN SomeSet(r.val) ELSE NoSet]
    ELSE IF kw.has_entities.t # "absent"
    THEN LET r == SetOf(kw.has_entities)
         IN  [err |-> r.err, val |-> IF r.err = None THEN SomeSet(r.val) ELSE NoSet]
    ELSE [err |-> None, val |-> NoSet]

\* DialogueStateRule(dialogue_state, **kwargs): the rule, or the exception raised.
\* resolved['has_entities'] is always a set, so the isinstance chain takes the
\* (list, set) branch.
NewRule(dialogue_state, kw) ==
    LET e == ResolveEntities(kw)
    IN  IF kw.unknown THEN [err |-> "TypeError", rule |-> <<>>]
        ELSE IF e.err # None THEN [err |-> e.err, rule |-> <<>>]
        ELSE [err |-> None,
              rule |-> [dialogue_state |-> dialogue_state,
                        domain |-> kw.domain,
                        intent |-> kw.intent,
                        entity_types |-> e.val]]

\* The set of entity types of a context, built by the loop of apply.
ContextEntityTypes(context) == Range(context.entities)

applyMutEquality(rule, context) ==
    IF rule.domain # None /\ rule.domain # context.domain THEN FALSE
    ELSE IF rule.intent # None /\ rule.intent # context.intent THEN FALSE
    ELSE IF rule.entity_types # NoSet
            /\ rule.entity_types[1] # ContextEntityTypes(context)
         THEN FALSE
    ELSE TRUE

apply(rule, context) ==
    IF rule.domain # None /\ rule.domain # context.domain THEN FALSE
    ELSE IF rule.intent # None /\ rule.intent # context.intent THEN FALSE
    ELSE IF rule.entity_types # NoSet
            /\ Cardinality(rule.entity_types[1] \cap ContextEntityTypes(context))
                 < Cardinality(rule.entity_types[1])
         THEN FALSE
    ELSE TRUE

\* Truth value of an optional string: None and '' are false.
Truthy(s) == s # None /\ s # ""

complexity(rule) ==
    <<IF Truthy(rule.domain) THEN 1 ELSE 0,
      IF Truthy(rule.intent) THEN 1 ELSE 0,
      IF rule.entity_types # NoSet /\ rule.entity_types[1] # {}
      THEN Cardinality(rule.entity_types[1]) ELSE 0>>

compareMutDomainFirst(this, that) ==
    LET a == complexity(this)
        b == complexity(that)
    IN  IF a[1] # b[1] THEN a[1] - b[1]
        ELSE IF a[2] # b[2] THEN a[2] - b[2]
        ELSE IF a[3] # b[3] THEN a[3] - b[3]
        ELSE 0

\* DialogueStateRule.compare: from the last component of the tuple to the first.
compare(this, that) ==
    LET this_comp == complexity(this)
        that_comp == complexity(that)
    IN  IF this_comp[3] # that_comp[3] THEN this_comp[3] - that_comp[3]
        ELSE IF this_comp[2] # that_comp[2] THEN this_comp[2] - that_comp[2]
        ELSE IF this_comp[1] # that_comp[1] THEN this_comp[1] - that_comp[1]
        ELSE 0

RECURSIVE InsertDescMutBeforeEqual(_, _)
InsertDescMutBeforeEqual(q, x) ==
    IF q = <<>> THEN <<x>>
    ELSE IF compare(x, Head(q)) >= 0 THEN <<x>> \o q
    ELSE <<Head(q)>> \o InsertDescMutBeforeEqual(Tail(q), x)

\* Insert x into a list in descending order, after every element not below it.
RECURSIVE InsertDesc(_, _)
InsertDesc(q, x) ==
    IF q = <<>> THEN <<x>>
    ELSE IF compare(x, Head(q)) > 0 THEN <<x>> \o q
    ELSE <<Head(q)>> \o InsertDesc(Tail(q), x)

RECURSIVE InsertAsc(_, _)
InsertAsc(q, x) ==
    IF q = <<>> THEN <<x>>
    ELSE IF compare(x, Head(q)) < 0 THEN <<x>> \o q
    ELSE <<Head(q)>> \o InsertAsc(Tail(q), x)

SortDescMutNoSort(q) == q

RECURSIVE SortDescMutNoReverse(_)
SortDescMutNoReverse(q) ==
    IF q = <<>> THEN <<>>
    ELSE InsertAsc(SortDescMutNoReverse(SubSeq(q, 1, Len(q) - 1)), q[Len(q)])

\* list.sort(key=cmp_to_key(compare), reverse=True): a stable descending sort.
RECURSIVE SortDesc(_)
SortDesc(q) ==
    IF q = <<>> THEN <<>>
    ELSE InsertDesc(SortDesc(SubSeq(q, 1, Len(q) - 1)), q[Len(q)])

-----------------------------------------------------------------------------
(* DialogueManager.add_dialogue_rule *)

StateNames == {"s1", "s2"}
Handlers == {"h1", "h2"}

\* handler.__name__ of the handler functions of the model.
HandlerName(handler) == IF handler = "h1" THEN "s1" ELSE "s2"

add_dialogue_ruleMutOverwrite(rs, hm, name0, handler, kw) ==
    IF name0 = None /\ handler = None
    THEN [err |-> "AttributeError", rules |-> rs, handler_map |-> hm]
    ELSE
    LET name == IF name0 = None THEN HandlerName(handler) ELSE name0
        new == NewRule(name, kw)
    IN  IF new.err # None
        THEN [err |-> new.err, rules |-> rs, handler_map |-> hm]
        ELSE [err |-> None, rules |-> SortDesc(Append(rs, new.rule)),
              handler_map |-> IF handler # None THEN [hm EXCEPT ![name] = handler]
                              ELSE hm]

\* The call as a function of the manager's state: the state it leaves and the
\* exception it raises (None when it returns).
add_dialogue_rule(rs, hm, name0, handler, kw) ==
    IF name0 = None /\ handler = None
    THEN [err |-> "AttributeError", rules |-> rs, handler_map |-> hm]
    ELSE
    LET name == IF name0 = None THEN HandlerName(handler) ELSE name0
        new == NewRule(name, kw)
    IN  IF new.err # None
        THEN [err |-> new.err, rules |-> rs, handler_map |-> hm]
        ELSE
        LET sorted == SortDesc(Append(rs, new.rule))
        IN  IF handler # None
            THEN LET old_handler == hm[name]
                 IN  IF old_handler # None /\ old_handler # handler
                     THEN [err |-> "AssertionError", rules |-> sorted,
                           handler_map |-> hm]
                     ELSE [err |-> None, rules |-> sorted,
                           handler_map |-> [hm EXCEPT ![name] = handler]]
            ELSE [err |-> None, rules |-> sorted, handler_map |-> hm]

NoKw == [domain |-> None, intent |-> None, has_entity |-> Absent,
         has_entities |-> Absent, unknown |-> FALSE]
NoCall == [op |-> "none", name |-> None, handler |-> None, kw |-> NoKw, err |-> None]

Idle == \A c \in DOMAIN calls : calls[c].pc = "idle"

Register(name, handler, kw) ==
    /\ Idle
    /\ Len(rules) < MaxRules
    /\ LET r == add_dialogue_rule(rules, handler_map, name, handler, kw)
       IN  /\ rules' = r.rules
           /\ handler_map' = r.handler_map
           /\ last' = [op |-> "add_dialogue_rule", name |-> name,
                       handler |-> handler, kw |-> kw, err |-> r.err]
    /\ UNCHANGED <<calls, responders, convVars, probe>>

-----------------------------------------------------------------------------
(* DialogueResponder *)

NewResponder(slots) == [slots |-> slots, client_actions |-> <<>>]

respond(responder, action) ==
    [responder EXCEPT !.client_actions = Append(@, action)]

\* _choose: the items random.choice may return.
Choose(items) == IF items.t = "list" THEN Range(items.v) ELSE {items.v[1]}

\* The placeholder of a template text, None when it has none.
Placeholder(text) == IF text = "{name}" THEN "name" ELSE None

\* text.format(**slots)
Format(text, slots) ==
    IF Placeholder(text) = None THEN [err |-> None, val |-> text]
    ELSE IF Placeholder(text) \in DOMAIN slots
    THEN [err |-> None, val |-> slots[Placeholder(text)]]
    ELSE [err |-> "KeyError", val |-> None]

TextMessage(text) == [t |-> "dict", text |-> text, items |-> <<>>]
ListMessage(items) == [t |-> "list", text |-> None, items |-> items]

\* things or []
OrEmpty(things) == IF things.t = "NoneType" THEN <<>> ELSE things.v

\* The client action a responder method builds from its argument; chosen is
\* the item _choose picked.
BuildAction(method, arg, chosen, slots) ==
    CASE method = "reply" ->
           LET f == Format(chosen, slots)
           IN  [err |-> f.err, action |-> [name |-> SHOW_REPLY, message |-> TextMessage(f.val)]]
      [] method = "prompt" ->
           LET f == Format(chosen, slots)
           IN  [err |-> f.err, action |-> [name |-> SHOW_PROMPT, message |-> TextMessage(f.val)]]
      [] method = "show" ->
           [err |-> None, action |-> [name |-> SHOW_COLLECTION, message |-> ListMessage(OrEmpty(arg))]]
      [] method = "suggest" ->
           [err |-> None, action |-> [name |-> SHOW_SUGGESTIONS, message |-> ListMessage(OrEmpty(arg))]]
      [] OTHER ->
           [err |-> None, action |-> [name |-> "custom", message |-> ListMessage(arg.v)]]

-----------------------------------------------------------------------------
(* DialogueManager.apply_handler *)

DefaultHandler == "_default_handler"

default_handlerMutReplies == <<[method |-> "reply", arg |-> PyStr("hi")]>>

\* DialogueManager._default_handler: the responder calls it makes (none).
default_handler == <<>>

\* The loop over self.rules from position i: the dialogue state found, the
\* rule the loop stopped at (0 when it ran to the end) and the number of
\* rule.apply(context) evaluations it made.
RECURSIVE Scan(_, _, _, _, _)
Scan(rs, context, target, i, evaluated) ==
    IF i > Len(rs)
    THEN [dialogue_state |-> None, rule |-> 0, evaluated |-> evaluated]
    ELSE IF Truthy(target)
    THEN IF target = rs[i].dialogue_state
         THEN [dialogue_state |-> rs[i].dialogue_state, rule |-> i,
               evaluated |-> evaluated]
         ELSE Scan(rs, context, target, i + 1, evaluated)
    ELSE IF apply(rs[i], context)
         THEN [dialogue_state |-> rs[i].dialogue_state, rule |-> i,
               evaluated |-> evaluated + 1]
         ELSE Scan(rs, context, target, i + 1, evaluated + 1)

ResolveMutIgnoreTarget(rs, context, target) == Scan(rs, context, None, 1, 0)

Resolve(rs, context, target) == Scan(rs, context, target, 1, 0)

NoContext == [domain |-> None, intent |-> None, entities |-> <<>>]
NoResult == [dialogue_state |-> None, client_actions |-> <<>>]

IdleFrame ==
    [pc |-> "idle", context |-> NoContext, target |-> None,
     dialogue_state |-> None, rule |-> 0, evaluated |-> 0, handler |-> None,
     responder |-> 0, emitted |-> <<>>, err |-> None,
     result |-> NoResult]

Callers == {1, 2}

NewResponderIdMutShared(c) == 1

\* DialogueResponder(slots) is a new object: the identity of the responder of
\* call c, distinct from the responder of every other call in progress.
NewResponderId(c) == c

\* apply_handler up to the handler call: resolution, handler lookup, and the
\* responder of this call.
Begin(c, context, target) ==
    /\ calls[c].pc = "idle"
    /\ LET r == Resolve(rules, context, target)
           found == r.dialogue_state # None
           missing == found /\ handler_map[r.dialogue_state] = None
           fr == [IdleFrame EXCEPT !.context = context, !.target = target,
                                   !.dialogue_state = r.dialogue_state,
                                   !.rule = r.rule, !.evaluated = r.evaluated]
           id == NewResponderId(c)
       IN  IF missing
           THEN /\ calls' = [calls EXCEPT ![c] =
                       [fr EXCEPT !.pc = "done", !.err = "KeyError"]]
                /\ UNCHANGED responders
           ELSE /\ calls' = [calls EXCEPT ![c] =
                       [fr EXCEPT !.pc = "handler", !.responder = id,
                                  !.handler = IF found THEN handler_map[r.dialogue_state]
                                              ELSE DefaultHandler]]
                /\ responders' = [responders EXCEPT ![id] = NewResponder(<<>>)]
    /\ last' = NoCall
    /\ UNCHANGED <<rules, handler_map, convVars, probe>>

\* One responder call made by the handler of call c.
HandlerStep(c, method, arg) ==
    /\ calls[c].pc = "handler"
    /\ \E chosen \in (IF method \in {"reply", "prompt"} THEN Choose(arg) ELSE {None}) :
         LET id == calls[c].responder
             b == BuildAction(method, arg, chosen, responders[id].slots)
         IN  IF b.err # None
             THEN /\ calls' = [calls EXCEPT ![c] = [@ EXCEPT !.pc = "done", !.err = b.err]]
                  /\ UNCHANGED responders
             ELSE /\ calls' = [calls EXCEPT ![c] = [@ EXCEPT !.emitted = Append(@, b.action)]]
                  /\ responders' = [responders EXCEPT ![id] = respond(@, b.action)]
    /\ UNCHANGED <<rules, handler_map, last, convVars, probe>>

\* The handler returns and apply_handler returns its dict.
Return(c) ==
    /\ calls[c].pc = "handler"
    /\ calls' = [calls EXCEPT ![c] =
           [@ EXCEPT !.pc = "done",
                     !.result = [dialogue_state |-> calls[c].dialogue_state,
                                 client_actions |->
                                     responders[calls[c].responder].client_actions]]]
    /\ UNCHANGED <<rules, handler_map, last, responders, convVars, probe>>

\* The caller of call c takes the result (or the exception); the frame is gone.
Collect(c) ==
    /\ calls[c].pc = "done"
    /\ calls' = [calls EXCEPT ![c] = IdleFrame]
    /\ responders' = [id \in DOMAIN responders |->
                         IF \E d \in Callers \ {c} :
                                calls[d].pc = "handler" /\ calls[d].responder = id
                         THEN responders[id] ELSE NewResponder(<<>>)]
    /\ UNCHANGED <<rules, handler_map, last, convVars, probe>>

-----------------------------------------------------------------------------
(* Conversation *)

PyDict(q) == [t |-> "dict", v |-> q]

\* A key a dict does not have.
NoKey == [t |-> "missing", v |-> <<>>]

\* The truth value of a Python value.
Falsy(x) ==
    \/ x.t = "NoneType"
    \/ x.t \in {"list", "dict"} /\ x.v = <<>>
    \/ x.t = "str" /\ x.v = <<"">>
    \/ x.t = "int" /\ x.v = <<"0">>

\* A dict without some of its keys.
Without(d, keys) == [k \in DOMAIN d \ keys |-> d[k]]

\* d.pop(key, None)
PopOrNone(d, key) == IF key \in DOMAIN d THEN d[key] ELSE PyNone

NoTurn ==
    [op |-> "none", seq |-> 0, target_passed |-> NoKey, response |-> <<>>,
     out |-> <<>>, err |-> None]

ConvInit ==
    /\ session = {}
    /\ history = <<>>
    /\ frame = {}
    /\ allowed_intents = PyNone
    /\ target_dialog_state = PyStr("")
    /\ turn = NoTurn

\* _generate_suggestion_text: the pieces joined by ' ', or the exception raised.
generate_suggestion_text(suggestion) ==
    IF suggestion.t # "dict" THEN [err |-> "TypeError", pieces |-> <<>>]
    ELSE IF "type" \notin DOMAIN suggestion.v THEN [err |-> "KeyError", pieces |-> <<>>]
    ELSE [err |-> None,
          pieces |-> (IF "text" \in DOMAIN suggestion.v
                      THEN <<[k |-> "text", s |-> suggestion.v.text]>> ELSE <<>>)
                     \o (IF suggestion.v.type # "text"
                         THEN <<[k |-> "parenthesized", s |-> suggestion.v.type]>>
                         ELSE <<>>)]

Msg(kind, parts) == [kind |-> kind, parts |-> parts]

\* The except clause: "Unsupported response: {!r}".format(action)
Unsupported(action) == Msg("unsupported", <<action>>)

\* The first exception the suggestions raise, None when they raise none.
RECURSIVE FirstErr(_)
FirstErr(q) ==
    IF q = <<>> THEN None
    ELSE IF generate_suggestion_text(Head(q)).err # None
    THEN generate_suggestion_text(Head(q)).err
    ELSE FirstErr(Tail(q))

\* _handle_client_action: the text of an action, or the exception it lets out
\* (KeyError, ValueError and AttributeError are caught). The message of a
\* show-collection action is a list or not iterable.
handle_client_action(action) ==
    IF action.t # "dict" THEN [err |-> "TypeError", msg |-> Msg("text", <<"">>)]
    ELSE IF "name" \notin DOMAIN action.v THEN [err |-> None, msg |-> Unsupported(action)]
    ELSE IF action.v.name \in {SHOW_REPLY, SHOW_PROMPT}
    THEN IF "message" \notin DOMAIN action.v THEN [err |-> None, msg |-> Unsupported(action)]
         ELSE IF action.v.message.t # "dict"
         THEN [err |-> "TypeError", msg |-> Msg("text", <<"">>)]
         ELSE IF "text" \notin DOMAIN action.v.message.v
         THEN [err |-> None, msg |-> Unsupported(action)]
         ELSE [err |-> None, msg |-> Msg("text", <<action.v.message.v.text>>)]
    ELSE IF action.v.name = SHOW_SUGGESTIONS
    THEN IF "message" \notin DOMAIN action.v THEN [err |-> None, msg |-> Unsupported(action)]
         ELSE IF action.v.message.t \in {"NoneType", "int"}
         THEN [err |-> "TypeError", msg |-> Msg("text", <<"">>)]
         ELSE IF Falsy(action.v.message) THEN [err |-> None, msg |-> Unsupported(action)]
         ELSE IF action.v.message.t # "list"
         THEN [err |-> "TypeError", msg |-> Msg("text", <<"">>)]
         ELSE LET suggestions == action.v.message.v
              IN  IF FirstErr(suggestions) = "KeyError"
                  THEN [err |-> None, msg |-> Unsupported(action)]
                  ELSE IF FirstErr(suggestions) # None
                  THEN [err |-> FirstErr(suggestions), msg |-> Msg("text", <<"">>)]
                  ELSE [err |-> None,
                        msg |-> Msg("suggestions",
                                    <<IF Len(suggestions) = 1 THEN "Suggestion:"
                                      ELSE "Suggestions:">>
                                    \o [i \in 1..Len(suggestions) |->
                                           generate_suggestion_text(suggestions[i]).pieces])]
    ELSE IF action.v.name = SHOW_COLLECTION
    THEN IF "message" \notin DOMAIN action.v THEN [err |-> None, msg |-> Unsupported(action)]
         ELSE IF action.v.message.t # "list"
         THEN [err |-> "TypeError", msg |-> Msg("text", <<"">>)]
         ELSE [err |-> None, msg |-> Msg("collection", action.v.message.v)]
    ELSE [err |-> None, msg |-> Msg("text", <<"">>)]

\* [self._handle_client_action(a) for a in response['client_actions']]
RenderAll(actions) ==
    IF \E i \in 1..Len(actions) : handle_client_action(actions[i]).err # None
    THEN [err |-> handle_client_action(
                      actions[CHOOSE i \in 1..Len(actions) :
                                  /\ handle_client_action(actions[i]).err # None
                                  /\ \A j \in 1..(i - 1) :
                                         handle_client_action(actions[j]).err = None]).err,
          texts |-> <<>>]
    ELSE [err |-> None,
          texts |-> [i \in 1..Len(actions) |-> handle_client_action(actions[i]).msg]]

NewFrameMutMerge(old, response) == old \cup response.frame

\* self.frame = response['frame']
NewFrame(old, response) == response.frame

NewHistoryMutReplace(old, response) ==
    <<Without(response, {"history", "allowed_intents", "target_dialog_state"})>>
        \o response.history

\* response.pop('history'); self.history.insert(0, response): the list holds
\* the response object, which then loses the two keys popped after it.
NewHistory(old, response) ==
    <<Without(response, {"history", "allowed_intents", "target_dialog_state"})>> \o old

\* self.allowed_intents after the pop and the isinstance check.
StoreAllowedIntents(response) ==
    LET value == PopOrNone(response, "allowed_intents")
    IN  IF ~Falsy(value) /\ value.t # "list" THEN PyNone ELSE value

\* self.target_dialog_state after the pop and the isinstance check.
StoreTargetDialogState(response) ==
    LET value == PopOrNone(response, "target_dialog_state")
    IN  IF ~Falsy(value) /\ value.t # "str" THEN PyNone ELSE value

TargetPassedMutProcessToo(op, stored) == stored

\* The target_dialog_state argument of the parse call: say passes the stored
\* value, process does not pass the argument.
TargetPassed(op, stored) == IF op = "say" THEN stored ELSE NoKey

\* Conversation.say, response being what self._app_manager.parse returned.
Say(text, response) ==
    /\ Len(history) < MaxTurns
    /\ history' = NewHistory(history, response)
    /\ frame' = NewFrame(frame, response)
    /\ allowed_intents' = StoreAllowedIntents(response)
    /\ target_dialog_state' = StoreTargetDialogState(response)
    /\ LET r == RenderAll(response.client_actions)
       IN  turn' = [op |-> "say", seq |-> 1 - turn.seq,
                    target_passed |-> TargetPassed("say", target_dialog_state),
                    response |-> response, out |-> r.texts, err |-> r.err]
    /\ UNCHANGED <<session, managerVars, probe>>

\* Conversation.process: parse is called without target_dialog_state, and the
\* response object is returned.
Process(text, response) ==
    /\ Len(history) < MaxTurns
    /\ history' = NewHistory(history, response)
    /\ frame' = NewFrame(frame, response)
    /\ allowed_intents' = StoreAllowedIntents(response)
    /\ target_dialog_state' = StoreTargetDialogState(response)
    /\ turn' = [op |-> "process", seq |-> 1 - turn.seq,
                target_passed |-> TargetPassed("process", target_dialog_state),
                response |-> response,
                out |-> <<Without(response, {"history", "allowed_intents",
                                             "target_dialog_state"})>>,
                err |-> None]
    /\ UNCHANGED <<session, managerVars, probe>>

\* The attributes of a conversation.
Self ==
    [session |-> session, history |-> history, frame |-> frame,
     allowed_intents |-> allowed_intents, target_dialog_state |-> target_dialog_state]

resetMutClearsTarget(self) ==
    [self EXCEPT !.history = <<>>, !.frame = {}, !.target_dialog_state = PyNone]

\* The attributes after reset: self.history = []; self.frame = {}
reset(self) == [self EXCEPT !.history = <<>>, !.frame = {}]

\* Conversation.reset
Reset ==
    /\ session' = reset(Self).session
    /\ history' = reset(Self).history
    /\ frame' = reset(Self).frame
    /\ allowed_intents' = reset(Self).allowed_intents
    /\ target_dialog_state' = reset(Self).target_dialog_state
    /\ turn' = [NoTurn EXCEPT !.op = "reset", !.seq = 1 - turn.seq]
    /\ UNCHANGED <<managerVars, probe>>

-----------------------------------------------------------------------------
(* The dialogue manager: registration, then dispatch, one call at a time *)

Domains == {"d1", "d2"}
Intents == {"i1", "i2"}

Kw(domain, intent, has_entity, has_entities) ==
    [domain |-> domain, intent |-> intent, has_entity |-> has_entity,
     has_entities |-> has_entities, unknown |-> FALSE]

RuleKwargs ==
    {Kw(None, None, Absent, Absent),
     Kw("d1", None, Absent, Absent),
     Kw(None, "i1", Absent, Absent),
     Kw("d1", "i1", Absent, Absent),
     Kw(None, None, PyStr("A"), Absent),
     Kw(None, None, Absent, PyList(<<"A", "B">>)),
     Kw(None, None, PyStr("A"), PyList(<<"A", "B">>))}

Context(domain, intent, entities) ==
    [domain |-> domain, intent |-> intent, entities |-> entities]

Contexts ==
    {Context("d1", "i1", <<"A", "B", "C">>),
     Context("d1", "i1", <<>>),
     Context("d1", "i2", <<>>),
     Context("d2", "i1", <<"A">>),
     Context("d2", "i2", <<>>)}

Targets == {None, "s1", "s3"}

\* The responder calls each handler function of the model makes, in order.
HandlerScript(handler) ==
    CASE handler = "h1" -> <<[method |-> "reply", arg |-> PyStr("hi")]>>
      [] handler = "h2" -> <<[method |-> "show", arg |-> PyNone]>>
      [] OTHER -> default_handler

\* The next responder call of the handler of call c, if it has one left.
NextCalls(c) ==
    LET script == HandlerScript(calls[c].handler)
        n == Len(calls[c].emitted)
    IN  IF n < Len(script) THEN {script[n + 1]} ELSE {}

ManagerInit ==
    /\ rules = <<>>
    /\ handler_map = [n \in StateNames |-> None]
    /\ last = NoCall
    /\ calls = [c \in Callers |-> IdleFrame]
    /\ responders = [c \in Callers |-> NewResponder(<<>>)]

NoProbe ==
    [rule |-> [dialogue_state |-> None, domain |-> None, intent |-> None,
               entity_types |-> NoSet],
     context |-> NoContext, result |-> <<>>]

Init == ManagerInit /\ ConvInit /\ probe = NoProbe

Next ==
    \/ \E name \in StateNames \cup {None}, handler \in Handlers \cup {None},
          kw \in RuleKwargs : Register(name, handler, kw)
    \/ \E context \in Contexts, target \in Targets : Idle /\ Begin(1, context, target)
    \/ \E hc \in NextCalls(1) : HandlerStep(1, hc.method, hc.arg)
    \/ NextCalls(1) = {} /\ Return(1)
    \/ Collect(1)

Spec == Init /\ [][Next]_vars

-----------------------------------------------------------------------------
(* Registration with entity specifications of every type *)

EntitySpecs ==
    {PyStr("A"), PyStr("AB"), PyList(<<"A", "B">>), PySet({"A", "B"}), PyInt("5"),
     PyNone, PyDict([A |-> "x"])}

EntityKwargs ==
    {Kw(None, None, e, Absent) : e \in EntitySpecs}
    \cup {Kw(None, None, Absent, e) : e \in EntitySpecs}
    \cup {Kw("d1", "i1", Absent, Absent)}

EntityNext ==
    \E name \in StateNames, kw \in EntityKwargs : Register(name, "h1", kw)

SpecEntity == Init /\ [][EntityNext]_vars

-----------------------------------------------------------------------------
(* Registrations of rules that tie in priority, then dispatch *)

MaxTieRules == 3

\* The entity type of the k-th registration: it tells the rules apart and
\* gives their registration order, and does not change their priority.
TieEntities == <<"A", "B", "C", "D">>

TieKwargs(k) == {Kw(domain, None, PyStr(TieEntities[k]), Absent) : domain \in {None, "d1"}}

\* Every rule's entity type is among the entities of these contexts.
TieContexts == {Context(domain, "i1", TieEntities) : domain \in Domains}

TieRegister(name, handler, kw) ==
    /\ Idle
    /\ Len(rules) < MaxTieRules
    /\ LET r == add_dialogue_rule(rules, handler_map, name, handler, kw)
       IN  /\ rules' = r.rules
           /\ handler_map' = r.handler_map
           /\ last' = [op |-> "add_dialogue_rule", name |-> name,
                       handler |-> handler, kw |-> kw, err |-> r.err]
    /\ UNCHANGED <<calls, responders, convVars, probe>>

TieNext ==
    \/ /\ Len(rules) < MaxTieRules
       /\ \E handler \in Handlers, kw \in TieKwargs(Len(rules) + 1) :
              TieRegister(HandlerName(handler), handler, kw)
    \/ \E context \in TieContexts : Idle /\ Begin(1, context, None)
    \/ \E hc \in NextCalls(1) : HandlerStep(1, hc.method, hc.arg)
    \/ NextCalls(1) = {} /\ Return(1)
    \/ Collect(1)

SpecTie == Init /\ [][TieNext]_vars

-----------------------------------------------------------------------------
(* DialogueStateRule.apply as a function of a rule and a context *)

MaxEntities == 3

RECURSIVE SeqsUpTo(_, _)
SeqsUpTo(S, n) ==
    IF n = 0 THEN {<<>>}
    ELSE LET shorter == SeqsUpTo(S, n - 1)
         IN  shorter \cup {Append(q, x) : q \in shorter, x \in S}

MatchRules ==
    [dialogue_state : {"s1"}, domain : {None, "d1", "d2"}, intent : {None, "i1", "i2"},
     entity_types : {NoSet} \cup {SomeSet(S) : S \in SUBSET {"A", "B", "D"}}]

MatchContexts ==
    [domain : Domains, intent : Intents, entities : SeqsUpTo({"A", "B", "C"}, MaxEntities)]

MatchInit ==
    /\ ManagerInit
    /\ ConvInit
    /\ probe \in [rule : MatchRules, context : MatchContexts, result : {<<>>}]

Apply ==
    /\ probe.result = <<>>
    /\ probe' = [probe EXCEPT !.result = <<apply(probe.rule, probe.context)>>]
    /\ UNCHANGED <<managerVars, convVars>>

MatchNext == Apply

SpecMatch == MatchInit /\ [][MatchNext]_vars

-----------------------------------------------------------------------------
(* Dispatch on a registered manager, calls interleaved *)

\* The registrations of the setup phase.
Setup ==
    <<[name |-> "s1", handler |-> "h1", kw |-> Kw("d1", None, Absent, Absent)],
      [name |-> "s2", handler |-> "h2", kw |-> Kw(None, None, Absent, Absent)]>>

RECURSIVE AfterSetup(_)
AfterSetup(n) ==
    IF n = 0 THEN [err |-> None, rules |-> <<>>,
                   handler_map |-> [x \in StateNames |-> None]]
    ELSE LET before == AfterSetup(n - 1)
         IN  add_dialogue_rule(before.rules, before.handler_map, Setup[n].name,
                               Setup[n].handler, Setup[n].kw)

ConcContexts ==
    {[domain |-> "d1", intent |-> "i1", entities |-> <<>>],
     [domain |-> "d2", intent |-> "i1", entities |-> <<>>]}

\* The responder calls a handler function may make.
HandlerCalls ==
    {[method |-> "reply", arg |-> PyList(<<"hi", "{name}">>)],
     [method |-> "prompt", arg |-> PyStr("hi")],
     [method |-> "show", arg |-> PyNone],
     [method |-> "suggest", arg |-> PyList(<<"x">>)],
     [method |-> "respond", arg |-> PyList(<<"y">>)]}

ConcCalls(c) ==
    IF calls[c].handler = DefaultHandler THEN Range(default_handler)
    ELSE IF Len(calls[c].emitted) < MaxActions THEN HandlerCalls
    ELSE {}

ConcInit ==
    /\ rules = AfterSetup(Len(Setup)).rules
    /\ handler_map = AfterSetup(Len(Setup)).handler_map
    /\ last = NoCall
    /\ calls = [c \in Callers |-> IdleFrame]
    /\ responders = [c \in Callers |-> NewResponder(<<>>)]
    /\ ConvInit
    /\ probe = NoProbe

ConcNext ==
    \/ \E c \in Callers, context \in ConcContexts : Begin(c, context, None)
    \/ \E c \in Callers : \E hc \in ConcCalls(c) : HandlerStep(c, hc.method, hc.arg)
    \/ \E c \in Callers : Return(c)
    \/ \E c \in Callers : Collect(c)

SpecConc == ConcInit /\ [][ConcNext]_vars

-----------------------------------------------------------------------------
(* A conversation: say, process and reset against an arbitrary pipeline *)

Opt(key, value) == IF value = NoKey THEN <<>> ELSE (key :> value)

\* What self._app_manager.parse returns.
Response(fr, hist, actions, ai, tds) ==
    [frame |-> fr, history |-> hist, client_actions |-> actions]
        @@ Opt("allowed_intents", ai) @@ Opt("target_dialog_state", tds)

Action(name, message) == PyDict([name |-> name, message |-> message])
Reply(text) == Action(SHOW_REPLY, PyDict([text |-> text]))

ActionLists ==
    {<<>>,
     <<Reply("hi"), Reply("hi")>>,
     <<Action(SHOW_SUGGESTIONS,
              PyList(<<PyDict([text |-> "Coffee", type |-> "drink"]),
                       PyDict([text |-> "Tea", type |-> "text"])>>))>>,
     <<Action(SHOW_SUGGESTIONS, PyList(<<>>)), Reply("hi")>>,
     <<Action(SHOW_COLLECTION, PyList(<<PyDict([id |-> "1"])>>))>>,
     <<PyDict([name |-> SHOW_REPLY]), Reply("hi")>>,
     <<Action(SHOW_REPLY, PyNone), Reply("hi")>>,
     <<Action("show-list", PyDict([text |-> "hi"]))>>}

AllowedIntentsValues ==
    {NoKey, PyNone, PyList(<<"i1">>), PyList(<<>>), PyStr("i1"), PyStr(""),
     PyDict([i1 |-> "x"])}

TargetStateValues ==
    {NoKey, PyNone, PyStr("s1"), PyStr(""), PyList(<<"s1">>), PyList(<<>>)}

\* The histories parse may return, given the history it was passed.
Histories(passed) == {passed, <<>>}

Responses(passed) ==
    {Response(fr, passed, <<Reply("hi")>>, NoKey, NoKey) : fr \in {{}, {"f1"}, {"f2"}}}
    \cup {Response({"f1"}, hist, <<Reply("hi")>>, NoKey, PyStr("s1")) :
              hist \in Histories(passed)}
    \cup {Response({"f1"}, passed, actions, NoKey, NoKey) : actions \in ActionLists}
    \cup {Response({"f1"}, passed, <<>>, ai, NoKey) : ai \in AllowedIntentsValues}
    \cup {Response({"f1"}, passed, <<>>, NoKey, tds) : tds \in TargetStateValues}
    \cup {Response({"f2"}, passed, <<>>, PyList(<<"i1">>), PyStr("s1"))}

ConvNext ==
    \/ \E response \in Responses(history) : Say("hello", response)
    \/ \E response \in Responses(history) : Process("hello", response)
    \/ Reset

SpecConv == Init /\ [][ConvNext]_vars


-----------------------------------------------------------------------------
(* Properties *)

\* Priority as the documentation states it: entity-type count first, then the
\* intent flag, then the domain flag.
EntityCount(rule) ==
    IF rule.entity_types = NoSet THEN 0 ELSE Cardinality(rule.entity_types[1])
IntentFlag(rule) == IF rule.intent \in {None, ""} THEN 0 ELSE 1
DomainFlag(rule) == IF rule.domain \in {None, ""} THEN 0 ELSE 1

StrictlyHigher(r1, r2) ==
    \/ EntityCount(r1) > EntityCount(r2)
    \/ EntityCount(r1) = EntityCount(r2) /\ IntentFlag(r1) > IntentFlag(r2)
    \/ /\ EntityCount(r1) = EntityCount(r2)
       /\ IntentFlag(r1) = IntentFlag(r2)
       /\ DomainFlag(r1) > DomainFlag(r2)

\* A rule matches a context, as the documentation states it.
Matches(rule, context) ==
    /\ rule.domain = None \/ rule.domain = context.domain
    /\ rule.intent = None \/ rule.intent = context.intent
    /\ rule.entity_types = NoSet
       \/ rule.entity_types[1] \subseteq {context.entities[i] : i \in DOMAIN context.entities}

Matching(context) == {i \in 1..Len(rules) : Matches(rules[i], context)}

Started(c) == calls[c].pc \in {"handler", "done"}
Returned(c) == calls[c].pc = "done" /\ calls[c].err = None

\* C1: a call of apply_handler without a target state resolves to the dialogue
\* state of a rule that matches the context and that no matching registered
\* rule strictly outranks (entity-type count, then intent flag, then domain
\* flag); of two matching rules that differ only in entity-type count, the one
\* with the smaller count is not the one resolved. What the call returns is
\* the state it resolved.
C1_MostSpecificWins ==
    \A c \in Callers :
        Started(c) /\ ~Truthy(calls[c].target) /\ Matching(calls[c].context) # {} =>
            /\ calls[c].rule \in Matching(calls[c].context)
            /\ calls[c].dialogue_state = rules[calls[c].rule].dialogue_state
            /\ \A j \in Matching(calls[c].context) :
                   ~StrictlyHigher(rules[j], rules[calls[c].rule])
            /\ \A i, j \in Matching(calls[c].context) :
                   /\ rules[i].domain = rules[j].domain
                   /\ rules[i].intent = rules[j].intent
                   /\ EntityCount(rules[i]) > EntityCount(rules[j])
                   => calls[c].rule # j
            /\ Returned(c) => calls[c].result.dialogue_state = calls[c].dialogue_state

C1_Witness ==
    /\ Returned(1)
    /\ calls[1].target = None
    /\ Len(rules) = 2
    /\ Matching(calls[1].context) = {1, 2}
    /\ rules[1].domain = rules[2].domain
    /\ rules[1].intent = rules[2].intent
    /\ EntityCount(rules[1]) = 2
    /\ EntityCount(rules[2]) = 1
    /\ rules[1].dialogue_state # rules[2].dialogue_state
    /\ calls[1].result.dialogue_state = rules[1].dialogue_state

\* C2: with a non-empty target state that names a registered rule, apply_handler
\* resolves to the target without evaluating any rule's predicate, whether or
\* not the predicates hold; with a target that names no rule it resolves to no
\* state, runs the default handler and returns dialogue_state None.
C2_ForcedTarget ==
    \A c \in Callers :
        Started(c) /\ Truthy(calls[c].target) =>
            /\ calls[c].evaluated = 0
            /\ IF \E i \in 1..Len(rules) : rules[i].dialogue_state = calls[c].target
               THEN /\ calls[c].dialogue_state = calls[c].target
                    /\ Returned(c) => calls[c].result.dialogue_state = calls[c].target
               ELSE /\ calls[c].dialogue_state = None
                    /\ calls[c].handler = DefaultHandler
                    /\ calls[c].pc = "done" => /\ calls[c].err = None
                                               /\ calls[c].result.dialogue_state = None

C2_Witness ==
    /\ Returned(1)
    /\ calls[1].target = "s1"
    /\ calls[1].result.dialogue_state = "s1"
    /\ Len(rules) = 2
    /\ rules[1].dialogue_state = "s2"
    /\ rules[2].dialogue_state = "s1"
    /\ Matching(calls[1].context) = {1}

\* The registrations among the steps: a call of add_dialogue_rule just ended.
RegisterStep == last'.op = "add_dialogue_rule" /\ Idle /\ calls' = calls

\* The constraints are ones the rule constructor accepts.
KwAccepted(kw) == kw.has_entity = Absent \/ kw.has_entities = Absent

EffectiveName(call) ==
    IF call.name = None THEN HandlerName(call.handler) ELSE call.name

\* C3: add_dialogue_rule, given constraints the rule constructor accepts, raises
\* the conflict error exactly when the name already has a handler and the new
\* handler is not None and is another handler; with the same handler or with
\* None for a bound name it raises nothing, and the handler bound to the name
\* stays the same.
C3_ConflictExactly ==
    [][RegisterStep =>
        LET name == EffectiveName(last')
            named == last'.name # None \/ last'.handler # None
            bound == named /\ handler_map[name] # None
            other == last'.handler # None /\ last'.handler # handler_map[name]
        IN  /\ last'.err = "AssertionError" <=> KwAccepted(last'.kw) /\ bound /\ other
            /\ bound /\ ~other /\ KwAccepted(last'.kw) => last'.err = None
            /\ bound => handler_map'[name] = handler_map[name]]_vars

C3_Witness ==
    /\ last.op = "add_dialogue_rule"
    /\ last.err = "AssertionError"
    /\ last.handler = "h2"
    /\ handler_map["s1"] = "h1"
    /\ last.name = "s1"

\* C4: rule.apply(context) is true exactly when the rule's domain is unset or
\* is the context's, its intent is unset or is the context's, and its entity
\* types are unset or all among the types of the context's entities.
C4_MatchesIsSubsetTest ==
    probe.result # <<>> =>
        (probe.result[1] <=>
            /\ probe.rule.domain = None \/ probe.rule.domain = probe.context.domain
            /\ probe.rule.intent = None \/ probe.rule.intent = probe.context.intent
            /\ \/ probe.rule.entity_types = NoSet
               \/ \A e \in probe.rule.entity_types[1] :
                      \E i \in 1..Len(probe.context.entities) : probe.context.entities[i] = e)

C4_Witness ==
    /\ probe.result = <<TRUE>>
    /\ probe.rule.entity_types = SomeSet({"A", "B"})
    /\ probe.context.entities = <<"A", "B", "C">>

Unconstrained(rule) ==
    rule.domain = None /\ rule.intent = None /\ rule.entity_types = NoSet

\* C5: a rule with no constraints matches every context, no registered rule
\* compares lower than it, and no rule of strictly higher priority comes after
\* it in the rule list.
C5_UnconstrainedLowest ==
    \A i \in 1..Len(rules) :
        Unconstrained(rules[i]) =>
            /\ \A context \in Contexts : apply(rules[i], context)
            /\ \A j \in 1..Len(rules) : compare(rules[j], rules[i]) >= 0
            /\ \A j \in 1..Len(rules) : j > i => ~StrictlyHigher(rules[j], rules[i])

C5_Witness ==
    /\ Len(rules) = 2
    /\ Unconstrained(rules[2])
    /\ StrictlyHigher(rules[1], rules[2])
    /\ last.op = "add_dialogue_rule"
    /\ last.kw.domain = "d1"

\* C6: when no rule matches the context and no target state is given,
\* apply_handler runs the default handler, which emits nothing, and returns
\* dialogue_state None with an empty list of client actions, without raising.
C6_NoMatchDefault ==
    \A c \in Callers :
        Started(c) /\ ~Truthy(calls[c].target) /\ Matching(calls[c].context) = {} =>
            /\ calls[c].handler = DefaultHandler
            /\ calls[c].emitted = <<>>
            /\ calls[c].err = None
            /\ calls[c].pc = "done" =>
                   calls[c].result = [dialogue_state |-> None, client_actions |-> <<>>]

C6_Witness ==
    /\ Returned(1)
    /\ calls[1].target = None
    /\ Len(rules) = 2
    /\ Matching(calls[1].context) = {}
    /\ calls[1].result = [dialogue_state |-> None, client_actions |-> <<>>]

\* C7: every call of apply_handler has a responder of its own that starts with
\* no client actions and no slots; the client actions a call returns are the
\* actions its own handler emitted, in the order of the calls, duplicates kept,
\* and none of another call.
C7_OwnActionLog ==
    \A c \in Callers :
        /\ calls[c].pc = "handler" =>
               /\ responders[calls[c].responder].client_actions = calls[c].emitted
               /\ responders[calls[c].responder].slots = <<>>
        /\ Returned(c) => calls[c].result.client_actions = calls[c].emitted

C7_Witness ==
    /\ Returned(1)
    /\ Len(calls[1].emitted) = 2
    /\ calls[1].emitted[1] = calls[1].emitted[2]
    /\ calls[1].result.client_actions = calls[1].emitted
    /\ calls[2].pc = "handler"
    /\ Len(calls[2].emitted) = 1
    /\ calls[2].emitted[1] # calls[1].emitted[1]

\* The response as the history holds it: without the keys say and process pop.
PostExtraction(response) ==
    [k \in DOMAIN response \ {"history", "allowed_intents", "target_dialog_state"} |->
        response[k]]

SayStep == turn'.op = "say" /\ turn' # turn

\* C8 as stated: after say the history is the history the response carried,
\* with the response put in front.
C8_HistoryReplacedByResponseHistory ==
    turn.op = "say" =>
        history = <<PostExtraction(turn.response)>> \o turn.response.history

\* C8: say drops the history the response carries and puts the response,
\* without the keys popped from it, in front of the history the conversation
\* already had.
C8_ResponsePrependedToOwnHistory ==
    [][SayStep =>
        /\ history' = <<PostExtraction(turn'.response)>> \o history
        /\ "history" \notin DOMAIN history'[1]]_vars

C8_Witness ==
    /\ turn.op = "say"
    /\ Len(history) = 2
    /\ turn.response.history = <<>>
    /\ history[1] = PostExtraction(turn.response)

\* C9: after say and after process the frame is the frame of the response of
\* that turn, whatever it was before.
C9_FrameReplaced ==
    turn.op \in {"say", "process"} => frame = turn.response.frame

C9_Witness ==
    /\ turn.op = "say"
    /\ turn.err = None
    /\ Len(history) = 2
    /\ history[2].frame = {"f1"}
    /\ frame = {"f2"}

\* C10: after say and after process, allowed_intents is the value the response
\* carried if that value is a list, and None for every other value or no value.
C10_AllowedIntentsListOrNone ==
    turn.op \in {"say", "process"} =>
        allowed_intents =
            IF "allowed_intents" \in DOMAIN turn.response
               /\ turn.response.allowed_intents.t = "list"
            THEN turn.response.allowed_intents
            ELSE PyNone

\* C11: after say and after process, target_dialog_state is the value the
\* response carried if that value is a string, and None for every other value
\* or no value; so after a turn it is None or a string.
C11_TargetStateStrOrNone ==
    turn.op \in {"say", "process"} =>
        /\ target_dialog_state =
               IF "target_dialog_state" \in DOMAIN turn.response
                  /\ turn.response.target_dialog_state.t = "str"
               THEN turn.response.target_dialog_state
               ELSE PyNone
        /\ target_dialog_state.t \in {"NoneType", "str"}

ResetStep == turn'.op = "reset" /\ turn' # turn

\* C12: reset empties the history and the frame and leaves session,
\* allowed_intents and target_dialog_state as they were, so the say that comes
\* after a reset passes the target state stored before the reset.
C12_ResetClearsHistoryAndFrameOnly ==
    [][/\ ResetStep =>
            /\ history' = <<>>
            /\ frame' = {}
            /\ session' = session
            /\ allowed_intents' = allowed_intents
            /\ target_dialog_state' = target_dialog_state
       /\ turn.op = "reset" /\ SayStep => turn'.target_passed = target_dialog_state]_vars

C12_Witness ==
    /\ turn.op = "reset"
    /\ history = <<>>
    /\ frame = {}
    /\ allowed_intents = PyList(<<"i1">>)
    /\ target_dialog_state = PyStr("s1")

ProcessStep == turn'.op = "process" /\ turn' # turn

\* The target state a turn passed to the pipeline, None when it passed none.
Passed(t) == IF t.target_passed = NoKey THEN PyNone ELSE t.target_passed

\* C13: the string target state the response of one turn carried is passed to
\* the pipeline by the next turn when that turn is a say, and is not passed
\* when it is a process; either turn stores the target state of its own
\* response, or None when the response carries none, whatever was stored
\* before, so a stored target state is passed on one turn at most.
C13_TargetStateUsedOnce ==
    [][/\ SayStep =>
            /\ turn'.target_passed = target_dialog_state
            /\ /\ turn.op \in {"say", "process"}
               /\ "target_dialog_state" \in DOMAIN turn.response
               /\ turn.response.target_dialog_state.t = "str"
               => turn'.target_passed = turn.response.target_dialog_state
       /\ ProcessStep => turn'.target_passed = NoKey
       /\ SayStep \/ ProcessStep =>
            IF "target_dialog_state" \in DOMAIN turn'.response
            THEN target_dialog_state' \in {turn'.response.target_dialog_state, PyNone}
            ELSE target_dialog_state' = PyNone]_vars

C13_Witness ==
    /\ turn.op = "say"
    /\ Len(history) = 2
    /\ turn.target_passed = PyStr("s1")
    /\ "target_dialog_state" \notin DOMAIN turn.response
    /\ target_dialog_state = PyNone

\* The action has one of the shapes _handle_client_action renders: a dict with
\* a known name and the message that name takes.
WellFormed(action) ==
    /\ action.t = "dict"
    /\ DOMAIN action.v = {"name", "message"}
    /\ \/ /\ action.v.name \in {SHOW_REPLY, SHOW_PROMPT}
          /\ action.v.message.t = "dict"
          /\ "text" \in DOMAIN action.v.message.v
       \/ /\ action.v.name = SHOW_SUGGESTIONS
          /\ action.v.message.t = "list"
          /\ action.v.message.v # <<>>
          /\ \A i \in 1..Len(action.v.message.v) :
                 /\ action.v.message.v[i].t = "dict"
                 /\ "type" \in DOMAIN action.v.message.v[i].v
       \/ /\ action.v.name = SHOW_COLLECTION
          /\ action.v.message.t = "list"

KnownNames == {SHOW_REPLY, SHOW_PROMPT, SHOW_SUGGESTIONS, SHOW_COLLECTION}

UnknownName(action) ==
    action.t = "dict" /\ "name" \in DOMAIN action.v /\ action.v.name \notin KnownNames

\* C14: say raises nothing whatever the client actions are; it returns one
\* text per action, in the order of the actions, and the text of an action
\* with a known name and a missing or mistyped field is the fallback text.
C14_SayRendersEveryAction ==
    turn.op = "say" =>
        /\ turn.err = None
        /\ Len(turn.out) = Len(turn.response.client_actions)
        /\ \A i \in 1..Len(turn.out) :
               LET action == turn.response.client_actions[i]
               IN  IF WellFormed(action) \/ UnknownName(action)
                   THEN turn.out[i] = handle_client_action(action).msg
                   ELSE turn.out[i] = Unsupported(action)

\* C15: an action whose name is none of show-reply, show-prompt,
\* show-suggestions and show-collection is rendered by say as the fallback
\* text for an unsupported action.
C15_UnknownNameFallback ==
    turn.op = "say" /\ turn.err = None =>
        \A i \in 1..Len(turn.out) :
            UnknownName(turn.response.client_actions[i]) =>
                turn.out[i] = Unsupported(turn.response.client_actions[i])

\* The rule list without its i-th rule.
RemoveAt(q, i) == SubSeq(q, 1, i - 1) \o SubSeq(q, i + 1, Len(q))

\* The entity specification of a registration, Absent when it has none.
EntitySpec(kw) == IF kw.has_entity # Absent THEN kw.has_entity ELSE kw.has_entities

\* C16: a rule constructed with the string s as has_entity or as has_entities
\* has the entity types {s}, which count 1 in its priority.
C16_BareStringSingleton ==
    [][RegisterStep /\ KwAccepted(last'.kw) /\ EntitySpec(last'.kw).t = "str" =>
        /\ last'.err = None
        /\ \E i \in 1..Len(rules') :
               /\ RemoveAt(rules', i) = rules
               /\ rules'[i].dialogue_state = EffectiveName(last')
               /\ rules'[i].entity_types = SomeSet({EntitySpec(last'.kw).v[1]})
               /\ complexity(rules'[i])[3] = 1]_vars

\* C17: a registration whose entity specification, given as has_entity or as
\* has_entities, is not a string, a list or a set raises the ValueError of an
\* invalid entity specification and adds no rule.
C17_InvalidEntitySpecRejected ==
    [][/\ RegisterStep
       /\ KwAccepted(last'.kw)
       /\ EntitySpec(last'.kw).t \notin {"absent", "str", "list", "set"}
       => /\ last'.err = "ValueError"
          /\ rules' = rules
          /\ handler_map' = handler_map]_vars

\* C18: whatever registrations were made, and whether they raised or not, the
\* rule list is in non-increasing priority order: no rule has strictly higher
\* priority (entity-type count, then intent flag, then domain flag) than a rule
\* before it, so a rule never comes after one with fewer entity types.
C18_RulesSortedByPriority ==
    \A i, j \in 1..Len(rules) :
        i < j =>
            /\ ~StrictlyHigher(rules[j], rules[i])
            /\ EntityCount(rules[i]) >= EntityCount(rules[j])

C18_Witness ==
    /\ last.op = "add_dialogue_rule"
    /\ last.err = "AssertionError"
    /\ last.kw.has_entity = PyStr("A")
    /\ Len(rules) = 2
    /\ EntityCount(rules[1]) = 1
    /\ DomainFlag(rules[1]) = 0
    /\ IntentFlag(rules[1]) = 0
    /\ EntityCount(rules[2]) = 0
    /\ DomainFlag(rules[2]) = 1
    /\ IntentFlag(rules[2]) = 1

\* C19: a call of add_dialogue_rule that raises the conflict error leaves the
\* rule list and the handler map as they were before the call.
C19_ConflictLeavesRegistryUnchanged ==
    [][RegisterStep /\ last'.err = "AssertionError" =>
        /\ rules' = rules
        /\ handler_map' = handler_map]_vars

\* C20: every dialogue state a rule of the list names has a handler in the
\* handler map, and no call of apply_handler fails looking its handler up.
C20_ResolvedStateHasHandler ==
    /\ \A i \in 1..Len(rules) : handler_map[rules[i].dialogue_state] # None
    /\ \A c \in Callers : calls[c].err # "KeyError"

\* The position of a rule among the registrations, read off its entity type.
RegistrationOrder(rule) ==
    CHOOSE k \in 1..Len(TieEntities) : rule.entity_types = SomeSet({TieEntities[k]})

EqualPriority(r1, r2) == ~StrictlyHigher(r1, r2) /\ ~StrictlyHigher(r2, r1)

\* C21: rules of equal priority are in the rule list in the order of their
\* registration, whatever was registered in between or after; a call of
\* apply_handler without a target state resolves to a matching rule that no
\* matching rule outranks and that was registered before every matching rule
\* of its priority.
C21_TiesInRegistrationOrder ==
    /\ \A i, j \in 1..Len(rules) :
           i < j /\ EqualPriority(rules[i], rules[j]) =>
               RegistrationOrder(rules[i]) < RegistrationOrder(rules[j])
    /\ \A c \in Callers :
           Started(c) /\ Matching(calls[c].context) # {} =>
               /\ calls[c].rule \in Matching(calls[c].context)
               /\ calls[c].dialogue_state = rules[calls[c].rule].dialogue_state
               /\ \A j \in Matching(calls[c].context) :
                      /\ ~StrictlyHigher(rules[j], rules[calls[c].rule])
                      /\ EqualPriority(rules[j], rules[calls[c].rule]) =>
                             RegistrationOrder(rules[calls[c].rule])
                                 <= RegistrationOrder(rules[j])

C21_Witness ==
    /\ Returned(1)
    /\ Len(rules) = 3
    /\ RegistrationOrder(rules[1]) = 2
    /\ RegistrationOrder(rules[2]) = 1
    /\ RegistrationOrder(rules[3]) = 3
    /\ StrictlyHigher(rules[1], rules[2])
    /\ EqualPriority(rules[2], rules[3])
    /\ rules[2].dialogue_state # rules[3].dialogue_state
    /\ Matching(calls[1].context) = {2, 3}
    /\ calls[1].result.dialogue_state = rules[2].dialogue_state

====
